---- MODULE Spec2Model ----
(***************************************************************************)
(* A model of ab_test_visualizations.py: a straight-line script that       *)
(* computes a two-proportion Z-test from four integers, prints a console   *)
(* summary, sweeps a power curve over 100 sample sizes and saves two       *)
(* figures.                                                                *)
(*                                                                         *)
(* The script's floats are modelled by decimal floating-point numbers      *)
(* with an eight-digit mantissa (records [k, m, e] standing for m * 10^e), *)
(* rounded toward zero, together with the IEEE special values nan and      *)
(* +/-inf.  A division by zero raises ZeroDivisionError when both operands *)
(* are Python numbers and yields nan or inf when an operand is a numpy     *)
(* float64, as in the interpreter.                                         *)
(***************************************************************************)
EXTENDS Integers, Sequences, FiniteSets

(***************************************************************************)
(* Decimal floating point                                                  *)
(***************************************************************************)
Pow10Tab == <<1, 10, 100, 1000, 10000, 100000, 1000000, 10000000,
              100000000, 1000000000>>

Pow10(k) == Pow10Tab[k + 1]

Abs(i) == IF i < 0 THEN -i ELSE i

Sgn(i) == IF i < 0 THEN -1 ELSE IF i = 0 THEN 0 ELSE 1

\* number of decimal digits of a > 0
NumDigits(a) ==
    CASE a < 10 -> 1
      [] a < 100 -> 2
      [] a < 1000 -> 3
      [] a < 10000 -> 4
      [] a < 100000 -> 5
      [] a < 1000000 -> 6
      [] a < 10000000 -> 7
      [] a < 100000000 -> 8
      [] a < 1000000000 -> 9
      [] OTHER -> 10

FNum(m, e) == [k |-> "num", m |-> m, e |-> e]

FZero == FNum(0, 0)

FNaN == [k |-> "nan", m |-> 0, e |-> 0]

FInf(s) == [k |-> "inf", m |-> s, e |-> 0]

\* the value of a name that has not been assigned yet
FUnset == [k |-> "unset", m |-> 0, e |-> 0]

\* the outcome of an expression that raised ZeroDivisionError
FRaise == [k |-> "raise", m |-> 0, e |-> 0]

\* m * 10^e brought to an eight-digit mantissa (truncating)
Norm(m, e) ==
    IF m = 0 THEN FZero
    ELSE LET a == Abs(m)
             nd == NumDigits(a)
         IN IF nd > 8
            THEN FNum(Sgn(m) * (a \div Pow10(nd - 8)), e + (nd - 8))
            ELSE FNum(Sgn(m) * (a * Pow10(8 - nd)), e - (8 - nd))

FromInt(i) == Norm(i, 0)

IsNaN(a) == a.k = "nan"

IsInf(a) == a.k = "inf"

IsZero(a) == a.k = "num" /\ a.m = 0

\* an operand whose evaluation raised: the whole expression raises
Raised(a, b) == a.k = "raise" \/ b.k = "raise"

FSign(a) == Sgn(a.m)

FNeg(a) == [a EXCEPT !.m = -a.m]

FAbs(a) == [a EXCEPT !.m = Abs(a.m)]

\* -1, 0, 1 as a < b, a = b, a > b; neither is nan
FCmp(a, b) ==
    CASE IsInf(a) /\ IsInf(b) -> Sgn(a.m - b.m)
      [] IsInf(a) -> a.m
      [] IsInf(b) -> -b.m
      [] FSign(a) # FSign(b) -> Sgn(FSign(a) - FSign(b))
      [] a.m = 0 -> 0
      [] a.e # b.e -> FSign(a) * Sgn(a.e - b.e)
      [] OTHER -> Sgn(a.m - b.m)

\* comparisons with a nan are false, as in IEEE 754
FLt(a, b) == ~IsNaN(a) /\ ~IsNaN(b) /\ FCmp(a, b) < 0

FLe(a, b) == ~IsNaN(a) /\ ~IsNaN(b) /\ FCmp(a, b) <= 0

FGt(a, b) == FLt(b, a)

FGe(a, b) == FLe(b, a)

FEq(a, b) == ~IsNaN(a) /\ ~IsNaN(b) /\ FCmp(a, b) = 0

FAddNum(a, b) ==
    LET hi == IF a.e >= b.e THEN a ELSE b
        lo == IF a.e >= b.e THEN b ELSE a
        sh == hi.e - lo.e
        part == IF sh > 9 THEN 0
                ELSE Sgn(lo.m) * ((Abs(lo.m) * 10) \div Pow10(sh))
    IN Norm(hi.m * 10 + part, hi.e - 1)

FAdd(a, b) ==
    CASE Raised(a, b) -> FRaise
      [] IsNaN(a) \/ IsNaN(b) -> FNaN
      [] IsInf(a) /\ IsInf(b) -> IF a.m = b.m THEN a ELSE FNaN
      [] IsInf(a) -> a
      [] IsInf(b) -> b
      [] a.m = 0 -> b
      [] b.m = 0 -> a
      [] OTHER -> FAddNum(a, b)

FSub(a, b) == FAdd(a, FNeg(b))

FMulNum(a, b) ==
    LET am == Abs(a.m)
        bm == Abs(b.m)
        ah == am \div 10000
        al == am % 10000
        bh == bm \div 10000
        bl == bm % 10000
        mid == ah * bl + al * bh
    IN Norm(FSign(a) * FSign(b)
              * (ah * bh * 10 + ((mid + ((al * bl) \div 10000)) \div 1000)),
            a.e + b.e + 7)

FMul(a, b) ==
    CASE Raised(a, b) -> FRaise
      [] IsNaN(a) \/ IsNaN(b) -> FNaN
      [] IsInf(a) \/ IsInf(b) ->
            IF FSign(a) * FSign(b) = 0 THEN FNaN ELSE FInf(FSign(a) * FSign(b))
      [] a.m = 0 \/ b.m = 0 -> FZero
      [] OTHER -> FMulNum(a, b)

RECURSIVE LongDiv(_, _, _, _)
LongDiv(q, r, c, steps) ==
    IF steps = 0 THEN q
    ELSE LongDiv(10 * q + ((10 * r) \div c), (10 * r) % c, c, steps - 1)

FDivNum(a, b) ==
    LET am == Abs(a.m)
        bm == Abs(b.m)
    IN Norm(FSign(a) * FSign(b) * LongDiv(am \div bm, am % bm, bm, 8),
            a.e - b.e - 8)

\* a / b where an operand is a numpy float64: no exception on a zero divisor
NpDiv(a, b) ==
    CASE Raised(a, b) -> FRaise
      [] IsNaN(a) \/ IsNaN(b) -> FNaN
      [] IsInf(a) /\ IsInf(b) -> FNaN
      [] IsInf(a) -> FInf(a.m * (IF FSign(b) < 0 THEN -1 ELSE 1))
      [] IsInf(b) -> FZero
      [] b.m = 0 -> IF a.m = 0 THEN FNaN ELSE FInf(FSign(a))
      [] a.m = 0 -> FZero
      [] OTHER -> FDivNum(a, b)

\* a / b where both operands are Python numbers
PyDiv(a, b) == IF IsZero(b) THEN FRaise ELSE NpDiv(a, b)

\* x * x <= M * 10^8, for x < 10^9 / 3
SqLe(x, M) ==
    LET xh == x \div 10000
        xl == x % 10000
        cross == 2 * xh * xl
        hi == xh * xh + ((cross + ((xl * xl) \div 10000)) \div 10000)
        lo == (((cross % 10000) * 10000) + xl * xl) % 100000000
    IN hi < M \/ (hi = M /\ lo = 0)

\* the largest x in lo .. hi - 1 with x * x <= M * 10^8
RECURSIVE ISqrt(_, _, _)
ISqrt(M, lo, hi) ==
    IF hi - lo <= 1 THEN lo
    ELSE LET mid == (lo + hi) \div 2
         IN IF SqLe(mid, M) THEN ISqrt(M, mid, hi) ELSE ISqrt(M, lo, mid)

\* np.sqrt: nan (with a warning) for a negative argument
FSqrt(a) ==
    CASE a.k = "raise" -> FRaise
      [] IsNaN(a) -> FNaN
      [] IsInf(a) -> IF a.m > 0 THEN a ELSE FNaN
      [] a.m < 0 -> FNaN
      [] a.m = 0 -> FZero
      [] OTHER ->
            LET M == IF a.e % 2 = 0 THEN a.m ELSE a.m * 10
                E == IF a.e % 2 = 0 THEN a.e ELSE a.e - 1
            IN Norm(ISqrt(M, 31622776, 316227767), (E - 8) \div 2)

(***************************************************************************)
(* scipy.stats.norm.cdf: the standard normal distribution function, from   *)
(* its values at 0.00, 0.05, ..., 6.00 (in units of 10^-8) by linear       *)
(* interpolation; 1 from 6 on, and Phi(-x) = 1 - Phi(x).                   *)
(***************************************************************************)
PhiTab ==
  << 50000000, 51993881, 53982784, 55961769, 57925971, 59870633,
     61791142, 63683065, 65542174, 67364478, 69146246, 70884031,
     72574688, 74215389, 75803635, 77337265, 78814460, 80233746,
     81593987, 82894387, 84134475, 85314094, 86433394, 87492806,
     88493033, 89435023, 90319952, 91149201, 91924334, 92647074,
     93319280, 93942924, 94520071, 95052853, 95543454, 95994084,
     96406968, 96784323, 97128344, 97441194, 97724987, 97981778,
     98213558, 98422239, 98609655, 98777553, 98927589, 99061329,
     99180246, 99285719, 99379033, 99461385, 99533881, 99597541,
     99653303, 99702024, 99744487, 99781404, 99813419, 99841113,
     99865010, 99885579, 99903240, 99918365, 99931286, 99942297,
     99951658, 99959594, 99966307, 99971971, 99976737, 99980738,
     99984089, 99986888, 99989220, 99991158, 99992765, 99994094,
     99995190, 99996092, 99996833, 99997439, 99997934, 99998338,
     99998665, 99998931, 99999146, 99999319, 99999459, 99999571,
     99999660, 99999732, 99999789, 99999834, 99999870, 99999898,
     99999921, 99999938, 99999952, 99999963, 99999971, 99999978,
     99999983, 99999987, 99999990, 99999992, 99999994, 99999996,
     99999997, 99999997, 99999998, 99999999, 99999999, 99999999,
     99999999, 100000000, 100000000, 100000000, 100000000, 100000000,
     100000000 >>

\* floor(|a| * 10^4) for a finite a with |a| < 6
Fixed4(a) ==
    IF a.m = 0 \/ -a.e - 4 > 9 THEN 0
    ELSE Abs(a.m) \div Pow10(-a.e - 4)

\* Phi(x) * 10^8 for x = x4 / 10^4 in [0, 6)
PhiFixed(x4) ==
    LET i == x4 \div 500
        r == x4 % 500
    IN PhiTab[i + 1] + (((PhiTab[i + 2] - PhiTab[i + 1]) * r) \div 500)

NormCdf(x) ==
    CASE IsNaN(x) -> FNaN
      [] IsInf(x) -> IF x.m > 0 THEN FromInt(1) ELSE FZero
      [] FGe(FAbs(x), FromInt(6)) -> IF x.m > 0 THEN FromInt(1) ELSE FZero
      [] x.m >= 0 -> Norm(PhiFixed(Fixed4(x)), -8)
      [] OTHER -> Norm(100000000 - PhiFixed(Fixed4(x)), -8)

(***************************************************************************)
(* The statistics of the script, as functions of its four inputs           *)
(***************************************************************************)
\* lines 22-23: conversions / visitors, both Python ints
Rate(conversions, visitors) == PyDiv(FromInt(conversions), FromInt(visitors))

\* line 26
PooledRate(cv, cc, vv, vc) == PyDiv(FromInt(cc + vc), FromInt(cv + vv))

\* StdErr with the variance of one arm only
StdErrOneArm(pp, cv, vv) ==
    FSqrt(FMul(FMul(pp, FSub(FromInt(1), pp)), PyDiv(FromInt(1), FromInt(cv))))

\* line 29: np.sqrt(p_pooled * (1 - p_pooled) * (1/n1 + 1/n2))
StdErr(pp, cv, vv) ==
    FSqrt(FMul(FMul(pp, FSub(FromInt(1), pp)),
               FAdd(PyDiv(FromInt(1), FromInt(cv)),
                    PyDiv(FromInt(1), FromInt(vv)))))

\* line 32: the divisor is a numpy float64
ZStat(pv, pcr, s) == NpDiv(FSub(pv, pcr), s)

\* line 35
PValue(z) == FMul(FromInt(2), FSub(FromInt(1), NormCdf(FAbs(z))))

\* the fixed significance threshold of lines 47, 126, 325, ...
Alpha == Norm(5, -2)

\* line 47
Verdict(p) == IF FLt(p, Alpha) THEN "YES" ELSE "NO"

\* lines 43 and 350: both operands are Python floats
RelativeLift(pv, pcr) == FMul(PyDiv(FSub(pv, pcr), pcr), FromInt(100))

\* the critical value 1.96 of lines 89, 227
CriticalZ == Norm(196, -2)

\* line 231: the target power 0.8
TargetPower == Norm(8, -1)

\* line 218: np.linspace(1000, 50000, 100)
GridPoints == 100

GridLow == 1000

GridHigh == 50000

\* the i-th swept sample size, i in 1 .. GridPoints (numpy: start + k * step,
\* and the last point is the stop value itself)
SampleSize(i) ==
    IF i = GridPoints THEN FromInt(GridHigh)
    ELSE FAdd(FromInt(GridLow),
              FMul(FromInt(i - 1),
                   FDivNum(FromInt(GridHigh - GridLow), FromInt(GridPoints - 1))))

\* SeN with the sample size multiplied in instead of divided out
SeNTimes(pp, n) ==
    FSqrt(FMul(FMul(pp, FSub(FromInt(1), pp)), FMul(FromInt(2), n)))

\* line 223
SeN(pp, n) ==
    FSqrt(FMul(FMul(pp, FSub(FromInt(1), pp)), NpDiv(FromInt(2), n)))

\* line 225
Ncp(diff, sen) == NpDiv(diff, sen)

\* Power without the complement: the probability of not rejecting
PowerNoComplement(diff, pp, n) ==
    NormCdf(FSub(CriticalZ, Ncp(diff, SeN(pp, n))))

\* line 227
Power(diff, pp, n) ==
    FSub(FromInt(1), NormCdf(FSub(CriticalZ, Ncp(diff, SeN(pp, n)))))

\* lines 219-228
PowerCurve(diff, pp) == [i \in 1 .. GridPoints |-> Power(diff, pp, SampleSize(i))]

\* np.abs(np.array(powers) - 0.8)
Gap(pw) == FAbs(FSub(pw, TargetPower))

\* np.argmin: the first nan if there is one, else the first minimum
ArgMin(seq) ==
    IF \E i \in DOMAIN seq : IsNaN(seq[i])
    THEN CHOOSE i \in DOMAIN seq :
            IsNaN(seq[i]) /\ \A j \in DOMAIN seq : IsNaN(seq[j]) => i <= j
    ELSE CHOOSE i \in DOMAIN seq :
            /\ \A j \in DOMAIN seq : FLe(seq[i], seq[j])
            /\ \A j \in DOMAIN seq : FEq(seq[j], seq[i]) => i <= j

\* Power80Idx as the first swept size that reaches the target (the last
\* one when none does)
Power80IdxFirstReaching(pws) ==
    IF \E i \in DOMAIN pws : FGe(pws[i], TargetPower)
    THEN CHOOSE i \in DOMAIN pws :
            /\ FGe(pws[i], TargetPower)
            /\ \A j \in DOMAIN pws : FGe(pws[j], TargetPower) => i <= j
    ELSE Len(pws)

\* line 237
Power80Idx(pws) == ArgMin([i \in DOMAIN pws |-> Gap(pws[i])])

(***************************************************************************)
(* The run of the script                                                   *)
(***************************************************************************)
\* bound of the small visitor counts tried beside the literal inputs
MaxVisitors == 2

\* lines 16-19: the literal inputs
RefVisitors == 10000

RefControlConversions == 500

RefVariantConversions == 580

VisitorCounts == (0 .. MaxVisitors) \cup {RefVisitors}

ConversionCounts ==
    (-1 .. MaxVisitors + 1)
        \cup {RefControlConversions, RefControlConversions + 20,
              RefVariantConversions}

VARIABLES
    control_visitors, control_conversions,
    variant_visitors, variant_conversions,
    p_control, p_variant, p_pooled, se, z_stat, p_value,
    verdict, diff_observed, powers, power_80_idx, sample_for_80,
    stdout, files, pc, exc

inputs == <<control_visitors, control_conversions,
            variant_visitors, variant_conversions>>

stats == <<p_control, p_variant, p_pooled, se, z_stat, p_value>>

sweep == <<diff_observed, powers, power_80_idx, sample_for_80>>

vars == <<inputs, stats, verdict, sweep, stdout, files, pc, exc>>

Init ==
    /\ control_visitors \in VisitorCounts
    /\ control_conversions \in ConversionCounts
    /\ variant_visitors \in VisitorCounts
    /\ variant_conversions \in ConversionCounts
    /\ p_control = FUnset
    /\ p_variant = FUnset
    /\ p_pooled = FUnset
    /\ se = FUnset
    /\ z_stat = FUnset
    /\ p_value = FUnset
    /\ verdict = "unset"
    /\ diff_observed = FUnset
    /\ powers = <<>>
    /\ power_80_idx = 0
    /\ sample_for_80 = FUnset
    /\ stdout = <<>>
    /\ files = <<>>
    /\ pc = "import"
    /\ exc = "none"

\* lines 6-13 in an environment that has the plotting libraries
ImportOk ==
    /\ pc = "import"
    /\ pc' = "rates"
    /\ UNCHANGED <<inputs, stats, verdict, sweep, stdout, files, exc>>

\* lines 6-13 in an environment where matplotlib or seaborn is missing
ImportFail ==
    /\ pc = "import"
    /\ pc' = "raised"
    /\ exc' = "ModuleNotFoundError"
    /\ UNCHANGED <<inputs, stats, verdict, sweep, stdout, files>>

\* lines 22-23
CalcRates ==
    /\ pc = "rates"
    /\ LET pcr == Rate(control_conversions, control_visitors)
           pv == Rate(variant_conversions, variant_visitors)
       IN IF pcr = FRaise
          THEN /\ pc' = "raised"
               /\ exc' = "ZeroDivisionError"
               /\ UNCHANGED <<p_control, p_variant>>
          ELSE IF pv = FRaise
          THEN /\ pc' = "raised"
               /\ exc' = "ZeroDivisionError"
               /\ p_control' = pcr
               /\ UNCHANGED p_variant
          ELSE /\ pc' = "pooled"
               /\ p_control' = pcr
               /\ p_variant' = pv
               /\ UNCHANGED exc
    /\ UNCHANGED <<inputs, p_pooled, se, z_stat, p_value, verdict, sweep,
                   stdout, files>>

\* line 26
CalcPooled ==
    /\ pc = "pooled"
    /\ LET pp == PooledRate(control_visitors, control_conversions,
                            variant_visitors, variant_conversions)
       IN IF pp = FRaise
          THEN /\ pc' = "raised"
               /\ exc' = "ZeroDivisionError"
               /\ UNCHANGED p_pooled
          ELSE /\ pc' = "se"
               /\ p_pooled' = pp
               /\ UNCHANGED exc
    /\ UNCHANGED <<inputs, p_control, p_variant, se, z_stat, p_value, verdict,
                   sweep, stdout, files>>

\* line 29
CalcSe ==
    /\ pc = "se"
    /\ LET s == StdErr(p_pooled, control_visitors, variant_visitors)
       IN IF s = FRaise
          THEN /\ pc' = "raised"
               /\ exc' = "ZeroDivisionError"
               /\ UNCHANGED se
          ELSE /\ pc' = "zstat"
               /\ se' = s
               /\ UNCHANGED exc
    /\ UNCHANGED <<inputs, p_control, p_variant, p_pooled, z_stat, p_value,
                   verdict, sweep, stdout, files>>

\* line 32
CalcZ ==
    /\ pc = "zstat"
    /\ z_stat' = ZStat(p_variant, p_control, se)
    /\ pc' = "pvalue"
    /\ UNCHANGED <<inputs, p_control, p_variant, p_pooled, se, p_value,
                   verdict, sweep, stdout, files, exc>>

\* line 35
CalcP ==
    /\ pc = "pvalue"
    /\ p_value' = PValue(z_stat)
    /\ pc' = "summary"
    /\ UNCHANGED <<inputs, p_control, p_variant, p_pooled, se, z_stat,
                   verdict, sweep, stdout, files, exc>>

\* lines 37-48: the console summary; line 43 divides by p_control
PrintSummary ==
    /\ pc = "summary"
    /\ IF RelativeLift(p_variant, p_control) = FRaise
       THEN /\ stdout' = stdout \o <<"control_rate", "variant_rate",
                                     "absolute_diff">>
            /\ pc' = "raised"
            /\ exc' = "ZeroDivisionError"
            /\ UNCHANGED verdict
       ELSE /\ stdout' = stdout \o <<"control_rate", "variant_rate",
                                     "absolute_diff", "relative_lift",
                                     "standard_error", "z_statistic",
                                     "p_value", "significant">>
            /\ verdict' = Verdict(p_value)
            /\ pc' = "plots"
            /\ UNCHANGED exc
    /\ UNCHANGED <<inputs, stats, sweep, files>>

\* lines 51-210: the first five charts; line 176 keeps the observed difference
DrawPlots ==
    /\ pc = "plots"
    /\ diff_observed' = FSub(p_variant, p_control)
    /\ pc' = "sweep"
    /\ UNCHANGED <<inputs, stats, verdict, powers, power_80_idx,
                   sample_for_80, stdout, files, exc>>

\* lines 218-228
PowerSweep ==
    /\ pc = "sweep"
    /\ powers' = PowerCurve(diff_observed, p_pooled)
    /\ pc' = "find80"
    /\ UNCHANGED <<inputs, stats, verdict, diff_observed, power_80_idx,
                   sample_for_80, stdout, files, exc>>

\* lines 230-250
FindSampleFor80 ==
    /\ pc = "find80"
    /\ power_80_idx' = Power80Idx(powers)
    /\ sample_for_80' = SampleSize(power_80_idx')
    /\ pc' = "save1"
    /\ UNCHANGED <<inputs, stats, verdict, diff_observed, powers, stdout,
                   files, exc>>

\* lines 255-258, the image file can be written
SaveFig1Ok ==
    /\ pc = "save1"
    /\ files' = Append(files, "ab_test_statistical_breakdown.png")
    /\ stdout' = Append(stdout, "saved_breakdown")
    /\ pc' = "fig2"
    /\ UNCHANGED <<inputs, stats, verdict, sweep, exc>>

\* line 256 raising: the image file cannot be written
SaveFig1Fail ==
    /\ pc = "save1"
    /\ pc' = "raised"
    /\ exc' = "OSError"
    /\ UNCHANGED <<inputs, stats, verdict, sweep, stdout, files>>

\* lines 263-359: the second figure; line 350 divides by p_control again
DrawFig2 ==
    /\ pc = "fig2"
    /\ IF RelativeLift(p_variant, p_control) = FRaise
       THEN pc' = "raised" /\ exc' = "ZeroDivisionError"
       ELSE pc' = "save2" /\ UNCHANGED exc
    /\ UNCHANGED <<inputs, stats, verdict, sweep, stdout, files>>

\* lines 361-364, the image file can be written
SaveFig2Ok ==
    /\ pc = "save2"
    /\ files' = Append(files, "ab_test_explained.png")
    /\ stdout' = Append(stdout, "saved_explained")
    /\ pc' = "final"
    /\ UNCHANGED <<inputs, stats, verdict, sweep, exc>>

\* line 362 raising
SaveFig2Fail ==
    /\ pc = "save2"
    /\ pc' = "raised"
    /\ exc' = "OSError"
    /\ UNCHANGED <<inputs, stats, verdict, sweep, stdout, files>>

\* lines 366-372
PrintFinal ==
    /\ pc = "final"
    /\ stdout' = Append(stdout, "complete")
    /\ pc' = "done"
    /\ UNCHANGED <<inputs, stats, verdict, sweep, files, exc>>

Next ==
    \/ ImportOk
    \/ ImportFail
    \/ CalcRates
    \/ CalcPooled
    \/ CalcSe
    \/ CalcZ
    \/ CalcP
    \/ PrintSummary
    \/ DrawPlots
    \/ PowerSweep
    \/ FindSampleFor80
    \/ SaveFig1Ok
    \/ SaveFig1Fail
    \/ DrawFig2
    \/ SaveFig2Ok
    \/ SaveFig2Fail
    \/ PrintFinal

Spec == Init /\ [][Next]_vars

(***************************************************************************)
(* Vocabulary of the properties                                            *)
(***************************************************************************)
ValidArm(visitors, conversions) ==
    visitors > 0 /\ 0 <= conversions /\ conversions <= visitors

ValidInputs ==
    /\ ValidArm(control_visitors, control_conversions)
    /\ ValidArm(variant_visitors, variant_conversions)

ReferenceInputs ==
    /\ control_visitors = RefVisitors
    /\ control_conversions = RefControlConversions
    /\ variant_visitors = RefVisitors
    /\ variant_conversions = RefVariantConversions

Assigned(x) == x # FUnset

Printed(item) == \E i \in DOMAIN stdout : stdout[i] = item

StatsReported ==
    /\ Printed("control_rate") /\ Printed("variant_rate")
    /\ Printed("standard_error") /\ Printed("z_statistic")
    /\ Printed("p_value") /\ Printed("significant")
    /\ verdict # "unset"

PooledInside == FGt(p_pooled, FZero) /\ FLt(p_pooled, FromInt(1))

\* the sign of a float; a nan has none
SignOf(x) ==
    CASE IsNaN(x) -> "nan"
      [] FSign(x) < 0 -> "negative"
      [] FSign(x) = 0 -> "zero"
      [] OTHER -> "positive"

\* the z-statistic the script computes from the four inputs (lines 22-32)
ZOf(cv, cc, vv, vc) ==
    ZStat(Rate(vc, vv), Rate(cc, cv), StdErr(PooledRate(cv, cc, vv, vc), cv, vv))

SweepDone == powers # <<>>

(***************************************************************************)
(* C1                                                                      *)
(***************************************************************************)
RefCommon ==
    /\ FEq(p_control, Norm(500, -4))
    /\ FEq(p_variant, Norm(580, -4))
    /\ FEq(p_pooled, Norm(540, -4))
    /\ FGt(FAbs(z_stat), CriticalZ)
    /\ FLt(p_value, Alpha)
    /\ verdict = "YES"

\* C1 as stated: for the reference inputs control=(10000,500) and
\* variant=(10000,580) the result is control_rate=0.0500, variant_rate=0.0580,
\* pooled_rate=0.0540, z_statistic 2.505 to three decimals, |z| > 1.96,
\* p_value < 0.05 and the verdict YES.
C1_AsStated ==
    (ReferenceInputs /\ verdict # "unset") =>
        /\ RefCommon
        /\ FGe(z_stat, Norm(25045, -4)) /\ FLt(z_stat, Norm(25055, -4))

\* C1 amended: for the reference inputs the result is control_rate=0.0500,
\* variant_rate=0.0580, pooled_rate=0.0540, z_statistic 2.503 to three
\* decimals (2.5028..), |z| > 1.96, p_value < 0.05 and the verdict YES.
C1_Reference ==
    (ReferenceInputs /\ verdict # "unset") =>
        /\ RefCommon
        /\ FGe(z_stat, Norm(25025, -4)) /\ FLt(z_stat, Norm(25035, -4))

C1_Witness == ReferenceInputs /\ verdict = "YES" /\ pc = "done"

(***************************************************************************)
(* C2                                                                      *)
(***************************************************************************)
\* C2: whenever the standard error is exactly 0 for valid inputs, the
\* computation yields z_statistic = 0, p_value = 1 and a verdict that is not
\* significant, without nan or infinity.
C2_DegenerateDefined ==
    (ValidInputs /\ Assigned(p_value) /\ IsZero(se)) =>
        /\ FEq(z_stat, FZero)
        /\ FEq(p_value, FromInt(1))
        /\ ~FLt(p_value, Alpha)

(***************************************************************************)
(* C3                                                                      *)
(***************************************************************************)
\* C3: with an invalid arm (visitors <= 0, conversions < 0 or conversions >
\* visitors) the run raises InvalidInputError at once and computes or reports
\* no rate, standard error, z_statistic or p_value.
C3_InvalidRejected ==
    ~ValidInputs =>
        /\ ~Assigned(p_control) /\ ~Assigned(p_variant) /\ ~Assigned(p_pooled)
        /\ ~Assigned(se) /\ ~Assigned(z_stat) /\ ~Assigned(p_value)
        /\ stdout = <<>>
        /\ (pc = "raised" =>
                exc \in {"InvalidInputError", "ModuleNotFoundError"})

(***************************************************************************)
(* C4                                                                      *)
(***************************************************************************)
\* C4: for every valid pair of variants the sign of z_statistic equals the
\* sign of (variant_rate - control_rate), zero when the rates are equal.
C4_SignMatches ==
    (ValidInputs /\ Assigned(z_stat)) =>
        SignOf(z_stat) = SignOf(FSub(p_variant, p_control))

(***************************************************************************)
(* C5                                                                      *)
(***************************************************************************)
\* C5: with the other three inputs fixed, any valid variant_conversions b at
\* least the current one gives a z_statistic at least the current one.
C5_ZMonotone ==
    (ValidInputs /\ Assigned(z_stat)) =>
        \A b \in ConversionCounts :
            (variant_conversions <= b /\ b <= variant_visitors) =>
                FGe(ZOf(control_visitors, control_conversions,
                        variant_visitors, b), z_stat)

(***************************************************************************)
(* C6                                                                      *)
(***************************************************************************)
\* C6: for a positive effect size and a pooled rate strictly between 0 and 1
\* the swept powers are non-decreasing in the sample size.
C6_PowerMonotone ==
    (SweepDone /\ FGt(diff_observed, FZero) /\ PooledInside) =>
        \A i, j \in DOMAIN powers :
            i <= j => FLe(powers[i], powers[j])

C6_Witness ==
    /\ SweepDone /\ FGt(diff_observed, FZero) /\ PooledInside
    /\ FLt(powers[1], powers[2])
    /\ FLt(powers[2], powers[GridPoints])

(***************************************************************************)
(* C7                                                                      *)
(***************************************************************************)
\* distance of a power from alpha = 0.05
Gap05(pw) == FAbs(FSub(pw, Alpha))

SamePowerEverywhere == \A i \in DOMAIN powers : FEq(powers[i], powers[1])

\* C7 as stated: with effect size 0 and a pooled rate strictly between 0 and
\* 1 the power is the same at every swept sample size and is about
\* alpha = 0.05 (within 0.01 of it).
C7_AsStated ==
    (SweepDone /\ IsZero(diff_observed) /\ PooledInside) =>
        /\ SamePowerEverywhere
        /\ FLe(Gap05(powers[1]), Norm(1, -2))

\* C7 amended: with effect size 0 and a pooled rate strictly between 0 and 1
\* the power is the same at every swept sample size and is about
\* alpha / 2 = 0.025 (within 0.001 of it): 1 - Phi(1.96) counts the upper
\* rejection tail only.
C7_NullPower ==
    (SweepDone /\ IsZero(diff_observed) /\ PooledInside) =>
        /\ SamePowerEverywhere
        /\ FLe(FAbs(FSub(powers[1], Norm(25, -3))), Norm(1, -3))

C7_Witness ==
    /\ SweepDone /\ IsZero(diff_observed) /\ PooledInside
    /\ control_visitors = RefVisitors /\ pc = "done"

(***************************************************************************)
(* C8                                                                      *)
(***************************************************************************)
InSearchRange(n) == FGe(n, FromInt(GridLow)) /\ FLe(n, FromInt(GridHigh))

SampleFound == power_80_idx # 0

\* C8 as stated: for every valid input the reported sample size is the
\* smallest swept size whose power is >= 0.8; it lies in 1000..50000 and its
\* power is >= 0.8 minus a tolerance (0.05) for the grid.
C8_AsStated ==
    (ValidInputs /\ SampleFound) =>
        /\ InSearchRange(sample_for_80)
        /\ FGe(powers[power_80_idx], FSub(TargetPower, Norm(5, -2)))
        /\ FGe(powers[power_80_idx], TargetPower)
        /\ \A j \in DOMAIN powers :
              j < power_80_idx => ~FGe(powers[j], TargetPower)

\* C8 amended: for every valid input that reaches the search, the reported
\* sample size is the swept size whose power is closest to 0.8, the first
\* such one (the first swept size when the powers are nan); it lies in
\* 1000..50000.
C8_ClosestPoint ==
    (ValidInputs /\ SampleFound) =>
        /\ power_80_idx \in 1 .. GridPoints
        /\ sample_for_80 = SampleSize(power_80_idx)
        /\ InSearchRange(sample_for_80)
        /\ IF \E j \in DOMAIN powers : IsNaN(powers[j])
           THEN IsNaN(powers[1]) /\ power_80_idx = 1
           ELSE \A j \in DOMAIN powers :
                   /\ FLe(Gap(powers[power_80_idx]), Gap(powers[j]))
                   /\ j < power_80_idx =>
                         FGt(Gap(powers[j]), Gap(powers[power_80_idx]))

\* the reference run: the closest point is below the target
C8_Witness ==
    /\ ReferenceInputs /\ SampleFound
    /\ FLt(powers[power_80_idx], TargetPower)
    /\ FGt(powers[power_80_idx + 1], TargetPower)

(***************************************************************************)
(* C9                                                                      *)
(***************************************************************************)
\* C9: in every run on valid inputs in which the plotting libraries are missing or writing an
\* image fails, the statistics and the verdict are still computed and
\* reported.
C9_CoreIndependent ==
    (ValidInputs /\ pc = "raised"
        /\ exc \in {"ModuleNotFoundError", "OSError"}) =>
        /\ StatsReported
        /\ Assigned(p_control) /\ Assigned(p_variant) /\ Assigned(se)
        /\ Assigned(z_stat) /\ Assigned(p_value)

(***************************************************************************)
(* C10                                                                     *)
(***************************************************************************)
BothFiles == <<"ab_test_statistical_breakdown.png", "ab_test_explained.png">>

\* C10: for every valid pair of variants no step of the computation raises,
\* the images are saved in order, and a finished run has printed the relative
\* lift and saved both images.
C10_RunsToEnd ==
    ValidInputs =>
        /\ exc # "ZeroDivisionError"
        /\ \E k \in 0 .. 2 : files = SubSeq(BothFiles, 1, k)
        /\ pc = "done" => (files = BothFiles /\ Printed("relative_lift"))

====
